---- MODULE Spec2Model ----
(***************************************************************************)
(* Model of the eo-marine-wind analysis routine (src/pipeline.py) and of   *)
(* the dashboard session around it (src/app.py).                           *)
(*                                                                         *)
(* Numbers.  The program computes with IEEE floating point.  A float is    *)
(* modelled as a pair <<n, d>>: a finite value is the exact rational n/d   *)
(* in lowest terms with d > 0, <<1, 0>> and <<-1, 0>> are +inf and -inf    *)
(* and <<0, 0>> is NaN.  Binary representation error is not modelled;      *)
(* NaN, the infinities, division by zero, the NaN-skipping mean of xarray  *)
(* and decimal rounding are.                                               *)
(***************************************************************************)
EXTENDS Integers, Sequences, FiniteSets

VARIABLES
    pc,           \* position of the running call, "idle" between calls
    caller,       \* who called run_analysis: "app", "direct" or "none"
    bbox_coords,  \* run_analysis argument <<west, south, east, north>>
    site_name,    \* run_analysis argument
    items,        \* list(search.items()) once the search has answered
    red_raw,      \* opened band rasters of the scene
    green_raw,
    red,          \* clipped rasters, row-major sequences of samples
    green,
    ndti,         \* per-pixel turbidity field
    clarity,      \* avg_turbidity
    bng_val,      \* veg_proxy
    score,
    depth,
    wind,
    dist,
    writes,       \* paths written by the running call
    retval,       \* the 7-tuple returned by the last call, or NoValue
    raised,       \* the exception the last call raised, or "none"
    files,        \* the filesystem: paths that exist
    figures,      \* pyplot figures open in the process
    site,         \* dashboard: selected location
    history,      \* dashboard: st.session_state.history
    cache,        \* dashboard: st.cache_data store of cached_analysis
    display       \* dashboard: what the analysis block rendered

locals == <<items, red_raw, green_raw, red, green, ndti, clarity, bng_val,
            score, depth, wind, dist>>
args == <<caller, bbox_coords, site_name>>
session == <<site, history, cache, display>>
vars == <<pc, args, locals, writes, retval, raised, files, figures, session>>

\* the value of an unassigned variable
NoValue == <<"NoValue">>

----------------------------------------------------------------------------
(* Floating point values *)

NaN == <<0, 0>>

IsNaN(x) == x = NaN
IsInf(x) == x[2] = 0 /\ x[1] # 0
IsFinite(x) == x[2] > 0

Abs(n) == IF n < 0 THEN -n ELSE n
Sign(n) == IF n > 0 THEN 1 ELSE IF n < 0 THEN -1 ELSE 0

RECURSIVE GCD(_, _)
GCD(a, b) == IF b = 0 THEN a ELSE GCD(b, a % b)

\* the float with value n/d, any sign of d; x/0 is an infinity and 0/0 is NaN
Make(n, d) ==
    IF d = 0 THEN <<Sign(n), 0>>
    ELSE LET m == IF d < 0 THEN -n ELSE n
             e == Abs(d)
             g == GCD(Abs(m), e)
         IN  <<m \div g, e \div g>>

Num(k) == <<k, 1>>

FAdd(a, b) ==
    IF IsInf(a) /\ IsInf(b) THEN (IF a = b THEN a ELSE NaN)
    ELSE Make(a[1] * b[2] + b[1] * a[2], a[2] * b[2])
FNeg(a) == <<-a[1], a[2]>>
FSub(a, b) == FAdd(a, FNeg(b))
FMul(a, b) == Make(a[1] * b[1], a[2] * b[2])
FDiv(a, b) == Make(a[1] * b[2], a[2] * b[1])
FLess(a, b) ==
    /\ ~IsNaN(a)
    /\ ~IsNaN(b)
    /\ IF IsInf(a) /\ IsInf(b) THEN a[1] < b[1]
       ELSE a[1] * b[2] < b[1] * a[2]

RECURSIVE Pow10(_)
Pow10(k) == IF k = 0 THEN 1 ELSE 10 * Pow10(k - 1)

\* round(x, digits): nearest multiple of 10^-digits, ties to even
Round(x, digits) ==
    IF ~IsFinite(x) THEN x
    ELSE LET s == Pow10(digits)
             q == (x[1] * s) \div x[2]
             r == (x[1] * s) % x[2]
             up == \/ 2 * r > x[2]
                   \/ 2 * r = x[2] /\ q % 2 = 1
         IN  Make(IF up THEN q + 1 ELSE q, s)

----------------------------------------------------------------------------
(* Rasters: xarray DataArrays opened with masked=True, so a masked or     *)
(* clipped-away sample is NaN and reductions skip NaN.                    *)

RECURSIVE SumValid(_)
SumValid(a) ==
    IF a = <<>> THEN Num(0)
    ELSE IF IsNaN(Head(a)) THEN SumValid(Tail(a))
    ELSE FAdd(Head(a), SumValid(Tail(a)))

RECURSIVE CountValid(_)
CountValid(a) ==
    IF a = <<>> THEN 0
    ELSE (IF IsNaN(Head(a)) THEN 0 ELSE 1) + CountValid(Tail(a))

RECURSIVE SumAll(_)
SumAll(a) == IF a = <<>> THEN Num(0) ELSE FAdd(Head(a), SumAll(Tail(a)))

\* a mean that does not skip NaN (skipna=False, or a plain ndarray)
MeanKeepNaN(a) == FDiv(SumAll(a), Num(Len(a)))

\* DataArray.mean(): skipna is the default for float data
Mean(a) == FDiv(SumValid(a), Num(CountValid(a)))

\* a turbidity field that puts 0 where the denominator is 0
NdtiZeroFilled(r, g) ==
    [i \in 1..Len(r) |-> IF FAdd(r[i], g[i]) = Num(0) THEN Num(0)
                         ELSE FDiv(FSub(r[i], g[i]), FAdd(r[i], g[i]))]

\* line 15, element by element
Ndti(r, g) ==
    [i \in 1..Len(r) |-> FDiv(FSub(r[i], g[i]), FAdd(r[i], g[i]))]

\* a vegetation proxy without the 1.15 multiplier
VegProxyUnscaled(g) == FDiv(Mean(g), Num(10000))

\* line 20
VegProxy(g) == FMul(FDiv(Mean(g), Num(10000)), Make(115, 100))

calculate_marine_status(r, g) ==
    LET field == Ndti(r, g)
    IN  [ndti |-> field,
         avg_turbidity |-> Mean(field),
         veg_proxy |-> VegProxy(g)]

avg_wind_speed == Make(94, 10)
dist_shore == Make(112, 10)

\* line 30
DepthProxy(g) == FSub(Num(30), FDiv(Mean(g), Num(500)))

\* a floor that clamps to the threshold instead of replacing by 12.0
GroundingClamp(depth_m) == IF FLess(depth_m, Num(5)) THEN Num(5) ELSE depth_m

\* line 31
Grounding(depth_m) == IF FLess(depth_m, Num(5)) THEN Num(12) ELSE depth_m

\* a score that adds the wind speed without the factor 5
ScoreWindUnweighted(depth_m) == FAdd(avg_wind_speed, FSub(Num(40), depth_m))

\* line 37
Score(depth_m) == FAdd(FMul(avg_wind_speed, Num(5)), FSub(Num(40), depth_m))

calculate_turbine_feasibility(r, g) ==
    LET depth_m == Grounding(DepthProxy(g))
    IN  [score |-> Round(Score(depth_m), 1),
         depth |-> Round(depth_m, 1),
         wind |-> avg_wind_speed,
         dist |-> dist_shore]

----------------------------------------------------------------------------
(* The imagery catalog and the raster grid.  Coordinates are hundredths   *)
(* of a degree.  A scene's samples are addressed by the geographic        *)
(* position <<lon, lat>> of the pixel centre.                             *)

PixLons == {-600, -595}
PixLats == {5285, 5320, 5330}
Pixels == PixLons \X PixLats

Masked == <<NaN, NaN>>
Refl(r, g) == <<Num(r), Num(g)>>

SceneOf(f) == [red |-> [p \in Pixels |-> f[p][1]],
               green |-> [p \in Pixels |-> f[p][2]]]

\* what the catalog may hold for the area: clear water, no-data, a bright
\* southern bank, zero reflectance, a swath edge, a dropped red band
Scenes ==
    { SceneOf([p \in Pixels |-> Refl(3000, 1000)]),
      SceneOf([p \in Pixels |-> Masked]),
      SceneOf([p \in Pixels |-> IF p[2] < 5300 THEN Refl(1000, 15000)
                                ELSE Refl(1000, 3000)]),
      SceneOf([p \in Pixels |-> Refl(0, 0)]),
      SceneOf([p \in Pixels |-> IF p[1] = -600 THEN Masked
                                ELSE Refl(3000, 1000)]),
      SceneOf([p \in Pixels |-> <<NaN, Num(1000)>>]) }

Min(a, b) == IF a < b THEN a ELSE b
Max(a, b) == IF a < b THEN b ELSE a

\* shapely box(minx, miny, maxx, maxy): the polygon through the four corners
\* (maxx, miny), (maxx, maxy), (minx, maxy), (minx, miny); no ordering check
box(b) == [xlo |-> Min(b[1], b[3]), xhi |-> Max(b[1], b[3]),
           ylo |-> Min(b[2], b[4]), yhi |-> Max(b[2], b[4])]

\* pixels whose centre lies inside the polygon
Covered(geom) == {p \in Pixels : /\ geom.xlo < p[1] /\ p[1] < geom.xhi
                                 /\ geom.ylo < p[2] /\ p[2] < geom.yhi}

\* raster order: north to south, then west to east
RECURSIVE RasterOrder(_)
RasterOrder(S) ==
    IF S = {} THEN <<>>
    ELSE LET first == CHOOSE p \in S : \A q \in S :
                          \/ p[2] > q[2]
                          \/ p[2] = q[2] /\ p[1] <= q[1]
         IN  <<first>> \o RasterOrder(S \ {first})

\* rio.clip(geometry, crs): the samples inside the geometry, dropped to its
\* window; NoDataInBounds when nothing is left
ClipFails(geom) == Covered(geom) = {}
Clip(raster, geom) ==
    LET order == RasterOrder(Covered(geom))
    IN  [i \in 1..Len(order) |-> raster[order[i]]]

ReportPath(name) == <<name, "_report.png">>

----------------------------------------------------------------------------
(* run_analysis, one action per stage *)

MaxFigures == 2

ResetLocals ==
    /\ items' = NoValue
    /\ red_raw' = NoValue
    /\ green_raw' = NoValue
    /\ red' = NoValue
    /\ green' = NoValue
    /\ ndti' = NoValue
    /\ clarity' = NoValue
    /\ bng_val' = NoValue
    /\ score' = NoValue
    /\ depth' = NoValue
    /\ wind' = NoValue
    /\ dist' = NoValue

Raise(exc) ==
    /\ raised' = exc
    /\ pc' = "raised"

\* an empty result that goes unnoticed
IndexUnchecked(found) == FALSE

\* list(search.items())[0] on an empty list raises IndexError
IndexOutOfRange(found) == Len(found) < 1
FirstItem(found) == found[1]

\* lines 42-49: the catalog answers with at most one scene (max_items=1)
Search ==
    /\ pc = "search"
    /\ \E found \in {<<>>} \cup {<<s>> : s \in Scenes} :
          /\ items' = found
          /\ IF IndexOutOfRange(found)
             THEN Raise("IndexError")
             ELSE pc' = "open" /\ UNCHANGED raised
    /\ UNCHANGED <<args, red_raw, green_raw, red, green, ndti, clarity,
                   bng_val, score, depth, wind, dist, writes, retval, files,
                   figures, session>>

\* lines 52-53: open the two band assets
Open ==
    /\ pc = "open"
    /\ \/ /\ Raise("RasterioIOError")
          /\ UNCHANGED <<red_raw, green_raw>>
       \/ /\ red_raw' = FirstItem(items).red
          /\ green_raw' = FirstItem(items).green
          /\ pc' = "clip"
          /\ UNCHANGED raised
    /\ UNCHANGED <<args, items, red, green, ndti, clarity, bng_val, score,
                   depth, wind, dist, writes, retval, files, figures, session>>

\* lines 55-58: clip both bands to the box
ClipStep ==
    /\ pc = "clip"
    /\ LET geom == box(bbox_coords)
       IN  IF ClipFails(geom)
           THEN /\ Raise("NoDataInBounds")
                /\ UNCHANGED <<red, green>>
           ELSE /\ red' = Clip(red_raw, geom)
                /\ green' = Clip(green_raw, geom)
                /\ pc' = "marine"
                /\ UNCHANGED raised
    /\ UNCHANGED <<args, items, red_raw, green_raw, ndti, clarity, bng_val,
                   score, depth, wind, dist, writes, retval, files, figures,
                   session>>

\* line 61
MarineStatus ==
    /\ pc = "marine"
    /\ LET r == calculate_marine_status(red, green)
       IN  /\ ndti' = r.ndti
           /\ clarity' = r.avg_turbidity
           /\ bng_val' = r.veg_proxy
    /\ pc' = "feasibility"
    /\ UNCHANGED <<args, items, red_raw, green_raw, red, green, score, depth,
                   wind, dist, writes, retval, raised, files, figures, session>>

\* line 62
TurbineFeasibility ==
    /\ pc = "feasibility"
    /\ LET r == calculate_turbine_feasibility(red, green)
       IN  /\ score' = r.score
           /\ depth' = r.depth
           /\ wind' = r.wind
           /\ dist' = r.dist
    /\ pc' = "plot"
    /\ UNCHANGED <<args, items, red_raw, green_raw, red, green, ndti, clarity,
                   bng_val, writes, retval, raised, files, figures, session>>

\* lines 65-70: subplots opens a figure, savefig writes the file, close
\* releases the figure.  When plotting or saving raises, close is not
\* reached; the file may or may not have been created by then.
Plot ==
    /\ pc = "plot"
    /\ \/ /\ files' = files \cup {ReportPath(site_name)}
          /\ writes' = Append(writes, ReportPath(site_name))
          /\ pc' = "return"
          /\ UNCHANGED <<figures, raised>>
       \/ /\ figures < MaxFigures
          /\ figures' = figures + 1
          /\ Raise("OSError")
          /\ \/ UNCHANGED <<files, writes>>
             \/ /\ files' = files \cup {ReportPath(site_name)}
                /\ writes' = Append(writes, ReportPath(site_name))
    /\ UNCHANGED <<args, locals, retval, session>>

\* line 73
Return ==
    /\ pc = "return"
    /\ retval' = <<ReportPath(site_name), score, clarity, bng_val, depth,
                   wind, dist>>
    /\ pc' = "returned"
    /\ UNCHANGED <<args, locals, writes, raised, files, figures, session>>

\* entering run_analysis
Enter(who, b, name) ==
    /\ caller' = who
    /\ bbox_coords' = b
    /\ site_name' = name
    /\ pc' = "search"
    /\ writes' = <<>>
    /\ retval' = NoValue
    /\ raised' = "none"

----------------------------------------------------------------------------
(* A direct caller of run_analysis *)

BoxLons == {-605, -597, -585}
BoxLats == {5315, 5338}
Boxes == BoxLons \X BoxLats \X BoxLons \X BoxLats
SiteNames == {"Target_Site", "Kish_Bank"}

DirectCall ==
    /\ pc = "idle"
    /\ \E b \in Boxes, name \in SiteNames : Enter("direct", b, name)
    /\ UNCHANGED <<locals, files, figures, session>>

\* the call is over: its frame is gone
DirectDone ==
    /\ pc \in {"returned", "raised"}
    /\ caller = "direct"
    /\ pc' = "idle"
    /\ ResetLocals
    /\ UNCHANGED <<args, writes, retval, raised, files, figures, session>>

----------------------------------------------------------------------------
(* The dashboard session (src/app.py).  One script run per user action.   *)

site_options ==
    [s \in {"Kish Bank", "Arklow Bank"} |->
        IF s = "Kish Bank" THEN [bbox |-> <<-605, 5315, -585, 5338>>]
        ELSE [bbox |-> <<-610, 5275, -590, 5295>>]]
Sites == DOMAIN site_options

\* site.replace(" ", "_")
Label(s) == IF s = "Kish Bank" THEN "Kish_Bank" ELSE "Arklow_Bank"

CacheKey(s) == <<site_options[s].bbox, Label(s)>>
CacheKeys == {CacheKey(s) : s \in Sites}

\* int(x): truncation towards zero; raises on NaN and on an infinity
IntRaises(x) == ~IsFinite(x)
Trunc(x) == IF x[1] < 0 THEN -((-x[1]) \div x[2]) ELSE x[1] \div x[2]

\* f"{x:.Nf}"
Format(x, digits) ==
    IF IsNaN(x) THEN <<"nan">>
    ELSE IF IsInf(x) THEN <<IF x[1] < 0 THEN "-" ELSE "", "inf">>
    ELSE <<IF x[1] < 0 THEN "-" ELSE "", Round(<<Abs(x[1]), x[2]>>, digits)>>

\* line 101
Entry(s, r) ==
    [Site |-> s,
     Feasibility |-> <<r[2], "/100">>,
     Turbidity |-> Format(r[3], 2),
     BioGain |-> <<Trunc(FMul(r[4], Num(100))), "%">>,
     Credits |-> Format(FMul(FMul(r[4], Num(50)), Make(25, 10)), 1)]

Range(h) == {h[i] : i \in 1..Len(h)}

\* an append without the membership test
RecordAlways(h, entry) == Append(h, entry)

\* lines 102-103
Record(h, entry) == IF entry \in Range(h) THEN h ELSE Append(h, entry)

\* lines 153-154
Except(exc) == "error"

\* the selectbox: a rerun without the Run button
SelectSite ==
    /\ pc = "idle"
    /\ \E s \in Sites : site' = s
    /\ display' = "none"
    /\ caller' = "none"
    /\ retval' = NoValue
    /\ raised' = "none"
    /\ UNCHANGED <<pc, bbox_coords, site_name, locals, writes, files, figures,
                   history, cache>>

\* lines 64-66
ClearHistory ==
    /\ pc = "idle"
    /\ history' = <<>>
    /\ display' = "none"
    /\ caller' = "none"
    /\ retval' = NoValue
    /\ raised' = "none"
    /\ UNCHANGED <<pc, bbox_coords, site_name, locals, writes, files, figures,
                   site, cache>>

\* lines 90-96: the Run button; cached_analysis answers from the cache or
\* calls run_analysis
ClickRun ==
    /\ pc = "idle"
    /\ display' = "none"
    /\ IF cache[CacheKey(site)] # NoValue
       THEN /\ caller' = "app"
            /\ bbox_coords' = site_options[site].bbox
            /\ site_name' = Label(site)
            /\ writes' = <<>>
            /\ raised' = "none"
            /\ retval' = cache[CacheKey(site)]
            /\ pc' = "returned"
       ELSE Enter("app", site_options[site].bbox, Label(site))
    /\ UNCHANGED <<locals, files, figures, site, history, cache>>

\* lines 94-151 after cached_analysis has returned: the result is cached,
\* the entry recorded and the scorecard rendered; int() of an undefined
\* vegetation proxy raises before the entry is built
Render ==
    /\ pc = "returned"
    /\ caller = "app"
    /\ cache' = [cache EXCEPT ![CacheKey(site)] = retval]
    /\ IF IntRaises(FMul(retval[4], Num(100)))
       THEN /\ raised' = "ValueError"
            /\ display' = Except("ValueError")
            /\ UNCHANGED history
       ELSE /\ history' = Record(history, Entry(site, retval))
            /\ display' = "scorecard"
            /\ UNCHANGED raised
    /\ pc' = "idle"
    /\ ResetLocals
    /\ UNCHANGED <<args, writes, retval, files, figures, site>>

\* lines 153-154: run_analysis raised
Handle ==
    /\ pc = "raised"
    /\ caller = "app"
    /\ display' = Except(raised)
    /\ pc' = "idle"
    /\ ResetLocals
    /\ UNCHANGED <<args, writes, retval, raised, files, figures, site,
                   history, cache>>

----------------------------------------------------------------------------
(* Specifications *)

Init ==
    /\ pc = "idle"
    /\ caller = "none"
    /\ bbox_coords = NoValue
    /\ site_name = "none"
    /\ items = NoValue
    /\ red_raw = NoValue
    /\ green_raw = NoValue
    /\ red = NoValue
    /\ green = NoValue
    /\ ndti = NoValue
    /\ clarity = NoValue
    /\ bng_val = NoValue
    /\ score = NoValue
    /\ depth = NoValue
    /\ wind = NoValue
    /\ dist = NoValue
    /\ writes = <<>>
    /\ retval = NoValue
    /\ raised = "none"
    /\ files = {}
    /\ figures = 0
    /\ site = "Kish Bank"
    /\ history = <<>>
    /\ cache = [k \in CacheKeys |-> NoValue]
    /\ display = "none"

\* the dashboard session
Next ==
    \/ SelectSite
    \/ ClearHistory
    \/ ClickRun
    \/ Search
    \/ Open
    \/ ClipStep
    \/ MarineStatus
    \/ TurbineFeasibility
    \/ Plot
    \/ Return
    \/ Render
    \/ Handle

Spec == Init /\ [][Next]_vars

\* run_analysis called directly, any box
NextRun ==
    \/ DirectCall
    \/ Search
    \/ Open
    \/ ClipStep
    \/ MarineStatus
    \/ TurbineFeasibility
    \/ Plot
    \/ Return
    \/ DirectDone

SpecRun == Init /\ [][NextRun]_vars

----------------------------------------------------------------------------
(* The two metric functions on their own: every small raster pair, the    *)
(* 2x2 uniform rasters, and the functions applied again after a change of *)
(* one red sample.                                                        *)

MaxPix == 2
ScenarioPixels == 2 * 2

\* reflectance samples: masked, zero, and values on both sides of the
\* green mean 12500 at which the depth proxy reaches 5
RedSamples == {NaN, Num(0), Num(1000), Num(3000)}
GreenSamples == {NaN, Num(0), Num(1000), Num(10000), Num(15000)}

Uniform(n, S) == {[i \in 1..n |-> v] : v \in S}

RasterPairs ==
    UNION {[1..n -> RedSamples] \X [1..n -> GreenSamples] : n \in 1..MaxPix}
    \cup (Uniform(ScenarioPixels, RedSamples)
            \X Uniform(ScenarioPixels, GreenSamples))

InitCalc ==
    /\ pc = "marine"
    /\ caller = "direct"
    /\ bbox_coords = NoValue
    /\ site_name = "Target_Site"
    /\ items = NoValue
    /\ red_raw = NoValue
    /\ green_raw = NoValue
    /\ \E pair \in RasterPairs : red = pair[1] /\ green = pair[2]
    /\ ndti = NoValue
    /\ clarity = NoValue
    /\ bng_val = NoValue
    /\ score = NoValue
    /\ depth = NoValue
    /\ wind = NoValue
    /\ dist = NoValue
    /\ writes = <<>>
    /\ retval = NoValue
    /\ raised = "none"
    /\ files = {}
    /\ figures = 0
    /\ site = "Kish Bank"
    /\ history = <<>>
    /\ cache = [k \in CacheKeys |-> NoValue]
    /\ display = "none"

\* the caller changes one red sample and computes again; the feasibility
\* results of the previous computation are kept until they are overwritten
ChangeRed ==
    /\ pc = "plot"
    /\ \E i \in 1..Len(red), v \in RedSamples : red' = [red EXCEPT ![i] = v]
    /\ pc' = "marine"
    /\ ndti' = NoValue
    /\ clarity' = NoValue
    /\ bng_val' = NoValue
    /\ UNCHANGED <<args, items, red_raw, green_raw, green, score, depth, wind,
                   dist, writes, retval, raised, files, figures, session>>

NextCalc ==
    \/ MarineStatus
    \/ TurbineFeasibility
    \/ ChangeRed

SpecCalc == InitCalc /\ [][NextCalc]_vars

----------------------------------------------------------------------------
(* Claims about the dashboard session (Spec) *)

\* C1: when the catalog search returns no scene, run_analysis raises and
\* returns no tuple, and the dashboard shows an error, not a scorecard.
C1_EmptySearchReported ==
    /\ (pc \notin {"idle", "search"} /\ items = <<>>) =>
           /\ pc = "raised"
           /\ raised = "IndexError"
           /\ retval = NoValue
    /\ raised = "IndexError" =>
           /\ retval = NoValue
           /\ writes = <<>>
           /\ (pc = "idle" /\ caller = "app") => display = "error"

C1_Witness ==
    /\ pc = "idle"
    /\ caller = "app"
    /\ raised = "IndexError"
    /\ display = "error"

NoDuplicates ==
    \A i, j \in 1..Len(history) : i # j => history[i] # history[j]

\* a step of the session changes the history only by Clear History, which
\* empties it, or by a successful run, which appends its entry when no
\* equal entry is present; a run that fails leaves it alone
HistoryStep ==
    \/ history' = history
    \/ /\ pc = "idle"
       /\ history' = <<>>
    \/ /\ pc = "returned"
       /\ display' = "scorecard"
       /\ Entry(site, retval) \notin Range(history)
       /\ history' = Append(history, Entry(site, retval))

FailedRunStep == (pc = "raised" \/ display' = "error") => history' = history

\* C10: the session history never holds two equal entries; a successful run
\* appends its entry only if no equal entry is present, a failed run leaves
\* the history unchanged, Clear History leaves it empty.
C10_HistoryDistinct ==
    /\ []NoDuplicates
    /\ [][HistoryStep /\ FailedRunStep]_vars

\* a successful run is about to record an entry equal to one already held
C10_Witness ==
    /\ pc = "returned"
    /\ caller = "app"
    /\ ~IntRaises(FMul(retval[4], Num(100)))
    /\ Entry(site, retval) \in Range(history)
    /\ Len(history) = 2

----------------------------------------------------------------------------
(* Claims about run_analysis called directly (SpecRun) *)

\* C2: the analysis either fails or returns seven defined values: no
\* returned score, turbidity, vegetation proxy or depth is NaN, and a call
\* that raised returned nothing.
C2_AllOrNothing ==
    /\ pc = "returned" => \A i \in 2..5 : ~IsNaN(retval[i])
    /\ raised # "none" => retval = NoValue

Degenerate(b) == b[1] >= b[3] \/ b[2] >= b[4]

\* C8: with west >= east or south >= north the call does not get past the
\* clipping step and never returns a result.
C8_DegenerateRejected ==
    (pc # "idle" /\ Degenerate(bbox_coords)) =>
        pc \in {"search", "open", "clip", "raised"}

\* at most one write per call, to the returned path, after both metric
\* computations; none when the call failed before the plot
WriteAfterComputation ==
    /\ Len(writes) <= 1
    /\ (pc # "idle" /\ writes # <<>>) =>
           /\ writes[1] = ReportPath(site_name)
           /\ clarity # NoValue
           /\ score # NoValue
           /\ pc \in {"return", "returned", "raised"}
    /\ pc = "returned" => writes = <<retval[1]>>
    /\ raised \in {"IndexError", "RasterioIOError", "NoDataInBounds"} =>
           writes = <<>>
    /\ files \subseteq {ReportPath(n) : n \in SiteNames}

\* between calls nothing of a call is left but the files
NoCarriedState ==
    pc = "idle" =>
        /\ figures = 0
        /\ locals = <<NoValue, NoValue, NoValue, NoValue, NoValue, NoValue,
                      NoValue, NoValue, NoValue, NoValue, NoValue, NoValue>>

\* C9: a call writes at most one file, the returned report path, and only
\* after lookup, clipping and both computations; a call that fails earlier
\* writes nothing; no other state is carried from one call to the next.
C9_OneWriteNoState == WriteAfterComputation /\ NoCarriedState

----------------------------------------------------------------------------
(* Claims about the metric functions (SpecCalc) *)

Computed == pc \in {"feasibility", "plot"}

\* unmasked pixels whose red + green is not 0
ValidPixels(r, g) ==
    {i \in 1..Len(r) : /\ ~IsNaN(r[i])
                       /\ ~IsNaN(g[i])
                       /\ FAdd(r[i], g[i]) # Num(0)}

RECURSIVE RatioSum(_, _, _)
RatioSum(S, r, g) ==
    IF S = {} THEN Num(0)
    ELSE LET i == CHOOSE k \in S : TRUE
         IN  FAdd(FDiv(FSub(r[i], g[i]), FAdd(r[i], g[i])),
                  RatioSum(S \ {i}, r, g))

\* C3: the turbidity mean is the arithmetic mean of (red - green) /
\* (red + green) over exactly the unmasked pixels with red + green # 0;
\* pixels with red + green = 0 do not count.  (With no such pixel the
\* mean is over nothing and the result is NaN.)
C3_ZeroSumExcluded ==
    Computed =>
        LET V == ValidPixels(red, green)
        IN  IF V = {} THEN IsNaN(clarity)
            ELSE clarity = FDiv(RatioSum(V, red, green), Num(Cardinality(V)))

C3_Witness ==
    /\ pc = "plot"
    /\ \E i \in 1..Len(red) : red[i] = Num(0) /\ green[i] = Num(0)
    /\ ValidPixels(red, green) # {}
    /\ clarity = Make(1, 2)

ScoreOfDepth ==
    pc = "plot" =>
        /\ score = FAdd(Num(47), FSub(Num(40), depth))
        /\ wind = Make(94, 10)
        /\ dist = Make(112, 10)

\* C5: the score equals 47 + (40 - depth) for the depth of the same result
\* (both NaN when green has no valid pixel), wind and distance are 9.4 and
\* 11.2, and computing again after only red changed gives the same score.
C5_ScoreFromDepth ==
    /\ []ScoreOfDepth
    /\ [][(green' = green /\ score # NoValue /\ score' # NoValue)
            => score' = score]_vars

\* a red sample has changed and the score 75.0 of the computation before
\* is about to be computed again
C5_Witness ==
    /\ pc = "feasibility"
    /\ depth = Num(12)
    /\ score = Num(75)

UniformValid ==
    /\ \A i \in 1..Len(red) : red[i] = red[1] /\ green[i] = green[1]
    /\ IsFinite(red[1])
    /\ IsFinite(green[1])
    /\ FAdd(red[1], green[1]) # Num(0)

Scenario ==
    /\ red = [i \in 1..ScenarioPixels |-> Num(3000)]
    /\ green = [i \in 1..ScenarioPixels |-> Num(1000)]

\* C6: uniform unmasked rasters (red r, green g, r + g # 0) give turbidity
\* (r - g)/(r + g), vegetation proxy g/10000 * 1.15, depth 30 - g/500
\* (12.0 when that is below 5) and score 47 + (40 - depth); 2x2 rasters of
\* 3000 and 1000 give 0.5, 0.115, 28.0 and 59.0.
C6_UniformScenario ==
    pc = "plot" =>
        /\ UniformValid =>
               LET r == red[1]
                   g == green[1]
                   raw == FSub(Num(30), FDiv(g, Num(500)))
                   d == IF FLess(raw, Num(5)) THEN Num(12) ELSE Round(raw, 1)
               IN  /\ clarity = FDiv(FSub(r, g), FAdd(r, g))
                   /\ bng_val = FMul(FDiv(g, Num(10000)), Make(115, 100))
                   /\ depth = d
                   /\ score = FAdd(Num(47), FSub(Num(40), d))
        /\ Scenario =>
               /\ clarity = Make(1, 2)
               /\ bng_val = Make(115, 1000)
               /\ depth = Num(28)
               /\ score = Num(59)

C6_Witness ==
    /\ pc = "plot"
    /\ Scenario
    /\ score = Num(59)

RedEqualsGreen ==
    \A i \in 1..Len(red) : IsFinite(red[i]) /\ red[i] = green[i]

\* C7 as stated: red equal to green at every pixel, zeros included, gives
\* a turbidity mean of 0.0.
C7_EqualBandsZero == (Computed /\ RedEqualsGreen) => clarity = Num(0)

\* C7 amended: red equal to green at every pixel and not 0 at every pixel
\* gives a turbidity mean of 0.0.
C7_EqualBandsNotAllZero ==
    (Computed /\ RedEqualsGreen /\ \E i \in 1..Len(red) : red[i] # Num(0))
        => clarity = Num(0)

C7_Witness ==
    /\ pc = "plot"
    /\ RedEqualsGreen
    /\ \E i \in 1..Len(red) : red[i] = Num(0)
    /\ \E i \in 1..Len(red) : red[i] # Num(0)
    /\ clarity = Num(0)

====
